---- MODULE Spec2Model ----
(***************************************************************************)
(* A model of the ezcap client (digitalbazaar/ezcap): the root-capability  *)
(* identifier scheme (lib/util.js, generateZcapUri) and the ZcapClient     *)
(* operations delegate / request / read / write (lib/ZcapClient.js in the  *)
(* revision that takes `controller` and validates capabilities with        *)
(* _checkZcap).                                                            *)
(*                                                                         *)
(* JavaScript strings are TLA+ strings, handled as character sequences     *)
(* (Len, SubSeq, \o).  A value that may be `undefined` is carried either   *)
(* as the marker string UNDEFINED or as a record with a `type` field, the  *)
(* result of JavaScript's typeof.                                          *)
(***************************************************************************)
EXTENDS Integers, Sequences, FiniteSets, TLC

VARIABLES
    client,   \* the ZcapClient instance: its signers and configuration
    now,      \* Date.now(), in milliseconds
    uuids,    \* how many identifiers uuid() has handed out
    held,     \* the delegated capability the caller kept from an earlier call
    call,     \* the call in progress, or the last one finished
    prev,     \* the last delegate call that returned a capability
              \* (specification of successive delegations)
    other,    \* a second call in flight (specification of concurrent calls)
    scope,    \* a target and urls, and what the scope check says of them
              \* (specification of the scope relation)
    uriIn,    \* generateZcapUri's argument (identifier-scheme specification)
    uriOut    \* generateZcapUri's result, its decoding        (same)

vars == <<client, now, uuids, held, call, prev, other, scope, uriIn, uriOut>>

(***************************************************************************)
(* Bounds of the model.                                                    *)
(***************************************************************************)
\* longest string handed to generateZcapUri in SpecUri
MaxLen == 3
\* how many identifiers uuid() may hand out: the number of delegations
MaxUuids == 2
\* how many times the clock advances
MaxTicks == 1

(***************************************************************************)
(* Strings.                                                                *)
(***************************************************************************)
\* the value `undefined` where a string may stand
UNDEFINED == "<undefined>"

\* the printable ASCII characters: codes 32..95 and 97..126 (code 96, the
\* backquote, cannot stand in a TLA+ string and is left out of the alphabet)
AsciiLow == " !\"#$%&'()*+,-./0123456789:;<=>?@ABCDEFGHIJKLMNOPQRSTUVWXYZ[\\]^_"
AsciiHigh == "abcdefghijklmnopqrstuvwxyz{|}~"

CharAt(s, i) == SubSeq(s, i, i)

\* String.prototype.startsWith
StartsWith(s, p) == Len(p) <= Len(s) /\ SubSeq(s, 1, Len(p)) = p

\* String.prototype.includes, for a one-character needle
Includes(s, c) == \E i \in 1..Len(s) : CharAt(s, i) = c

\* String.prototype.substring(n): the string without its first n characters
Substring(s, n) == IF n >= Len(s) THEN "" ELSE SubSeq(s, n + 1, Len(s))

\* the character code of a printable ASCII character
CharCode(c) ==
    IF \E i \in 1..Len(AsciiLow) : CharAt(AsciiLow, i) = c
    THEN 31 + CHOOSE i \in 1..Len(AsciiLow) : CharAt(AsciiLow, i) = c
    ELSE 96 + CHOOSE i \in 1..Len(AsciiHigh) : CharAt(AsciiHigh, i) = c

\* String.fromCharCode, for a code of the alphabet
FromCharCode(code) ==
    IF code <= 95 THEN CharAt(AsciiLow, code - 31)
    ELSE CharAt(AsciiHigh, code - 96)

HexDigits == "0123456789ABCDEF"

IsHexDigit(c) == Includes(HexDigits, c) \/ Includes("abcdef", c)

HexValue(c) ==
    IF Includes(HexDigits, c)
    THEN (CHOOSE i \in 1..16 : CharAt(HexDigits, i) = c) - 1
    ELSE 9 + CHOOSE i \in 1..6 : CharAt("abcdef", i) = c

\* the characters encodeURIComponent leaves as they are
UriUnreserved ==
    "ABCDEFGHIJKLMNOPQRSTUVWXYZabcdefghijklmnopqrstuvwxyz0123456789-_.!~*'()"

\* "%XX" for one character
PercentEncode(c) ==
    "%" \o CharAt(HexDigits, (CharCode(c) \div 16) + 1)
        \o CharAt(HexDigits, (CharCode(c) % 16) + 1)

\* a mutant of encodeURIComponent's per-character rule: "%" is left alone
EncodeCharKeepsPercent(c) ==
    IF Includes(UriUnreserved, c) \/ c = "%" THEN c ELSE PercentEncode(c)

EncodeChar(c) ==
    IF Includes(UriUnreserved, c) THEN c ELSE PercentEncode(c)

RECURSIVE encodeURIComponent(_)
encodeURIComponent(s) ==
    IF s = "" THEN ""
    ELSE EncodeChar(CharAt(s, 1)) \o encodeURIComponent(Substring(s, 1))

\* what decodeURIComponent throws on a malformed escape
URIError == "<URIError>"

\* decodeURIComponent: every "%XX" becomes the character of code XX; a "%"
\* not followed by two hex digits is a URIError.  An escape outside the
\* alphabet (a control character, a byte of a multi-byte sequence) is
\* reported as URIError as well: no string of the model holds one.
RECURSIVE decodeURIComponent(_)
decodeURIComponent(s) ==
    IF s = "" THEN ""
    ELSE IF CharAt(s, 1) # "%"
    THEN LET rest == decodeURIComponent(Substring(s, 1))
         IN  IF rest = URIError THEN URIError ELSE CharAt(s, 1) \o rest
    ELSE IF Len(s) < 3 \/ ~IsHexDigit(CharAt(s, 2)) \/ ~IsHexDigit(CharAt(s, 3))
    THEN URIError
    ELSE LET code == 16 * HexValue(CharAt(s, 2)) + HexValue(CharAt(s, 3))
             rest == decodeURIComponent(Substring(s, 3))
         IN  IF code < 32 \/ code > 126 \/ code = 96 \/ rest = URIError
             THEN URIError
             ELSE FromCharCode(code) \o rest

(***************************************************************************)
(* The capability identifier scheme (lib/util.js).                         *)
(***************************************************************************)
\* constants.ZCAP_ROOT_PREFIX of the zcap library
ZCAP_ROOT_PREFIX == "urn:zcap:root:"

\* a mutant of Uuid: the same value every time
UuidConstant(n) == "u0"

\* the n-th value of uuid(): a fresh one each time
Uuid(n) == "u" \o CharAt("0123456789", n + 1)

\* generateZcapUri({url}), when uuid() has handed out n identifiers: the
\* root identifier of a truthy url, a fresh urn:uuid: otherwise
generateZcapUri(url, n) ==
    IF url # UNDEFINED /\ url # ""
    THEN ZCAP_ROOT_PREFIX \o encodeURIComponent(url)
    ELSE "urn:uuid:" \o Uuid(n)

\* whether that call of generateZcapUri drew from uuid()
UsesUuid(url) == url = UNDEFINED \/ url = ""

(***************************************************************************)
(* Values: dates, allowed actions, capability documents.                   *)
(***************************************************************************)
\* Date.parse's answer for a string that is no date; the time of an
\* invalid Date
NaN == 0 - 1

\* constants.ZCAP_CONTEXT_URL of the zcap library
ZCAP_CONTEXT_URL == "https://w3id.org/zcap/v1"

\* An `expires` value: typeof/instanceof in `type` ("undefined", "string",
\* "date", "other"), and in `ms` the instant it denotes (Date.parse of a
\* string, getTime of a Date), NaN when it denotes none.
NoExpires == [type |-> "undefined", ms |-> NaN]
DateString(ms) == [type |-> "string", ms |-> ms]
DateObject(ms) == [type |-> "date", ms |-> ms]

\* date.toISOString().slice(0, -5) + 'Z': the instant cut to whole
\* seconds, as a string
IsoSeconds(ms) == DateString((ms \div 1000) * 1000)

\* An `allowedAction(s)` value: "undefined", "string" (items holds the one
\* string), "array" or "other".
NoActions == [type |-> "undefined", items |-> <<>>]
ActionString(a) == [type |-> "string", items |-> <<a>>]
ActionArray(as) == [type |-> "array", items |-> as]

\* a document without a proof
NoProof ==
    [present |-> FALSE, proofPurpose |-> UNDEFINED, created |-> NoExpires,
     capabilityChain |-> <<>>]

\* "@context": one string, or an array whose first entry is `first`
ContextString(c) == [array |-> FALSE, first |-> c]
ContextArray(c) == [array |-> TRUE, first |-> c]

\* A capability object.  A field the object does not have is UNDEFINED
\* (NoExpires, NoActions, NoProof).
NoObj ==
    [context |-> ContextString(UNDEFINED), id |-> UNDEFINED,
     controller |-> UNDEFINED, parentCapability |-> UNDEFINED,
     invocationTarget |-> UNDEFINED, expires |-> NoExpires,
     allowedAction |-> NoActions, proof |-> NoProof]

\* A `capability` argument: undefined, a string or an object.
CapUndefined == [type |-> "undefined", str |-> "", obj |-> NoObj]
CapString(s) == [type |-> "string", str |-> s, obj |-> NoObj]
CapObject(o) == [type |-> "object", str |-> "", obj |-> o]

\* JavaScript truthiness of a `capability` argument
Truthy(cap) == cap.type = "object" \/ (cap.type = "string" /\ cap.str # "")

\* the root capability object of a URL, as a caller may write it down
RootObject(url, controller) ==
    [NoObj EXCEPT !.context = ContextString(ZCAP_CONTEXT_URL),
                  !.id = ZCAP_ROOT_PREFIX \o encodeURIComponent(url),
                  !.controller = controller,
                  !.invocationTarget = url]

(***************************************************************************)
(* Errors.  `kind` is the class the design names (InvalidArgument,         *)
(* MissingSigner, MalformedCapability, ScopeViolation, SigningFailure,     *)
(* TransportFailure), `class` the JavaScript class thrown and `at` the     *)
(* check that threw.                                                       *)
(***************************************************************************)
NoError == [kind |-> "none", class |-> "none", at |-> "none"]
Err(kind, class, at) == [kind |-> kind, class |-> class, at |-> at]

(***************************************************************************)
(* The call record: the arguments of the call in progress (or last         *)
(* finished), where it stands, and what it did to its collaborators.       *)
(***************************************************************************)
\* `via` is the method the caller called (delegate, request, read, write),
\* `ids` the number of identifiers the call drew from uuid().
\* what the signing collaborator was handed: for request the arguments of
\* signCapabilityInvocation, for delegate the document and the purpose's
\* parentCapability
NoSigned ==
    [url |-> UNDEFINED, method |-> UNDEFINED, action |-> UNDEFINED,
     json |-> UNDEFINED, capability |-> CapUndefined, doc |-> NoObj]

\* what httpClient was handed
NoSent == [url |-> UNDEFINED, method |-> UNDEFINED, json |-> UNDEFINED]

NoCall ==
    [op |-> "none", via |-> "none", pc |-> "idle",
     url |-> UNDEFINED, capability |-> CapUndefined,
     controller |-> UNDEFINED, invocationTarget |-> UNDEFINED,
     expires |-> NoExpires, allowedActions |-> NoActions,
     method |-> UNDEFINED, action |-> UNDEFINED, json |-> UNDEFINED,
     at |-> 0, error |-> NoError, ids |-> 0,
     signs |-> 0, sends |-> 0, signed |-> NoSigned, sent |-> NoSent,
     result |-> NoObj, status |-> 0]

(***************************************************************************)
(* ZcapClient.delegate.                                                    *)
(***************************************************************************)
\* a mutant of MissingSigner: the check asks for any signer at all
MissingSignerNeither(c, op) == ~c.delegationSigner /\ ~c.invocationSigner

\* the first statement of delegate (!this.delegationSigner) and of request
\* (!this.invocationSigner)
MissingSigner(c, op) ==
    IF op = "delegate" THEN ~c.delegationSigner ELSE ~c.invocationSigner

\* a mutant of NothingToDelegate: the check is left out
NothingToDelegateUnchecked(a) == FALSE

\* !(capability || invocationTarget)
NothingToDelegate(a) ==
    ~(Truthy(a.capability)
      \/ (a.invocationTarget # UNDEFINED /\ a.invocationTarget # ""))

\* a mutant of ExpiresInvalid: the parsed time is not looked at
ExpiresInvalidUnchecked(e) == FALSE

\* isNaN(Date.parse(expires)) for a Date or a string
ExpiresInvalid(e) == e.type \in {"date", "string"} /\ e.ms = NaN

\* `capability` after "if(!capability) capability = generateZcapUri({url:
\* invocationTarget})": the root capability of the target stands in for a
\* missing parent
DelegateParent(a, n) ==
    IF Truthy(a.capability) THEN a.capability
    ELSE CapString(generateZcapUri(a.invocationTarget, n))

\* the checks of delegate, in the order of the code: the first that throws
DelegateFailure(c, a) ==
    LET parent == DelegateParent(a, 0)
    IN
    IF MissingSigner(c, "delegate")
    THEN Err("MissingSigner", "Error", "delegationSigner")
    ELSE IF a.invocationTarget # UNDEFINED /\ ~Includes(a.invocationTarget, ":")
    THEN Err("InvalidArgument", "Error", "invocationTarget absolute")
    ELSE IF NothingToDelegate(a)
    THEN Err("InvalidArgument", "TypeError", "capability or invocationTarget")
    ELSE IF ExpiresInvalid(a.expires)
    THEN Err("InvalidArgument", "Error", "expires valid date")
    ELSE IF a.expires.type \notin {"undefined", "date", "string"}
    THEN Err("InvalidArgument", "TypeError", "expires type")
    ELSE IF parent.type = "object" /\ parent.obj.id = UNDEFINED
    THEN Err("InvalidArgument", "TypeError", "capability type")
    ELSE IF a.invocationTarget = UNDEFINED /\ parent.type = "string"
    THEN Err("InvalidArgument", "Error", "invocationTarget with string")
    ELSE IF a.invocationTarget = UNDEFINED
            /\ parent.obj.invocationTarget = UNDEFINED
    THEN Err("InvalidArgument", "TypeError", "invocationTarget string")
    ELSE IF a.allowedActions.type \notin {"undefined", "string", "array"}
    THEN Err("InvalidArgument", "TypeError", "allowedActions type")
    ELSE NoError

\* a mutant of DelegateExpires: the default is five seconds, not minutes
DelegateExpiresFiveSeconds(a, t) ==
    IF a.expires.type = "undefined" THEN IsoSeconds(t + 5 * 1000)
    ELSE IF a.expires.type = "date" THEN IsoSeconds(a.expires.ms)
    ELSE a.expires

\* `expires` as the document carries it: the default is five minutes after
\* Date.now(); a Date is written with second precision; a string is kept
DelegateExpires(a, t) ==
    IF a.expires.type = "undefined" THEN IsoSeconds(t + 5 * 60 * 1000)
    ELSE IF a.expires.type = "date" THEN IsoSeconds(a.expires.ms)
    ELSE a.expires

\* a mutant of ParentCapabilityId: a delegated parent's own parent is named
ParentCapabilityIdOfGrandparent(parent) ==
    IF parent.type = "string" THEN parent.str
    ELSE IF parent.obj.parentCapability # UNDEFINED
    THEN parent.obj.parentCapability
    ELSE parent.obj.id

\* the local `parentCapability`: the string itself, or the object's id
ParentCapabilityId(parent) ==
    IF parent.type = "string" THEN parent.str ELSE parent.obj.id

\* a mutant of DelegateTarget: the parent's id is taken for its target
DelegateTargetParentId(a, parent) ==
    IF a.invocationTarget = UNDEFINED THEN parent.obj.id
    ELSE a.invocationTarget

\* the document's invocationTarget: the one given, else the parent's
DelegateTarget(a, parent) ==
    IF a.invocationTarget = UNDEFINED THEN parent.obj.invocationTarget
    ELSE a.invocationTarget

\* a mutant of DelegateActions: a string is not converted, and is dropped
DelegateActionsArrayOnly(a) ==
    IF a.allowedActions.type = "array" THEN a.allowedActions.items ELSE <<>>

\* allowedActions as an array: a string becomes the array of it, the
\* default is the empty array
DelegateActions(a) ==
    IF a.allowedActions.type = "undefined" THEN <<>> ELSE a.allowedActions.items

\* a mutant of DelegatedCapability: the fields are written into the parent
\* object, which keeps its id
DelegatedCapabilityInPlace(a, t, n) ==
    LET parent == DelegateParent(a, n)
        actions == DelegateActions(a)
        base == IF parent.type = "object"
                THEN [parent.obj EXCEPT !.proof = NoProof,
                        !.context = ContextString(ZCAP_CONTEXT_URL)]
                ELSE [NoObj EXCEPT
                        !.context = ContextString(ZCAP_CONTEXT_URL),
                        !.id = generateZcapUri(UNDEFINED, n)]
    IN  [base EXCEPT
            !.controller = a.controller,
            !.parentCapability = ParentCapabilityId(parent),
            !.invocationTarget = DelegateTarget(a, parent),
            !.expires = DelegateExpires(a, t),
            !.allowedAction =
                IF Len(actions) > 0 THEN ActionArray(actions) ELSE NoActions]

\* the document delegate builds, at time t with n identifiers handed out
DelegatedCapability(a, t, n) ==
    LET parent == DelegateParent(a, n)
        actions == DelegateActions(a)
    IN  [NoObj EXCEPT
            !.context = ContextString(ZCAP_CONTEXT_URL),
            !.id = generateZcapUri(UNDEFINED, n),
            !.controller = a.controller,
            !.parentCapability = ParentCapabilityId(parent),
            !.invocationTarget = DelegateTarget(a, parent),
            !.expires = DelegateExpires(a, t),
            !.allowedAction =
                IF Len(actions) > 0 THEN ActionArray(actions) ELSE NoActions]

\* a mutant of DelegationPurpose: the purpose is given the parent's id only
DelegationPurposeIdOnly(a, n) ==
    CapString(ParentCapabilityId(DelegateParent(a, n)))

\* what CapabilityDelegation is constructed with as parentCapability: the
\* full parent (the object, or the root capability's string)
DelegationPurpose(a, n) == DelegateParent(a, n)

(***************************************************************************)
(* The signing collaborator for delegation: jsigs.sign with a              *)
(* CapabilityDelegation purpose.  It attaches a proof whose                *)
(* capabilityChain is the parent's chain followed by the parent.           *)
(***************************************************************************)
CapabilityChain(parent) ==
    IF parent.type = "string" THEN <<parent.str>>
    ELSE IF parent.obj.parentCapability = UNDEFINED THEN <<parent.obj.id>>
    ELSE parent.obj.proof.capabilityChain \o <<parent.obj.id>>

JsigsSign(doc, parent, t) ==
    [doc EXCEPT
        !.context = ContextArray(doc.context.first),
        !.proof = [present |-> TRUE, proofPurpose |-> "capabilityDelegation",
                   created |-> IsoSeconds(t),
                   capabilityChain |-> CapabilityChain(parent)]]

(***************************************************************************)
(* _checkZcap and ZcapClient.request.                                      *)
(***************************************************************************)
\* a mutant of IsAbsoluteUri: any string will do
IsAnyString(v) == v # UNDEFINED

\* typeof v === 'string' && v.includes(':')
IsAbsoluteUri(v) == v # UNDEFINED /\ Includes(v, ":")

\* what a call of a function that is not there throws
TypeError == "<TypeError>"

\* exports.getDelegationProofs({capability}): the module neither defines
\* nor imports a getDelegationProofs and assigns nothing to `exports`, so
\* the call throws, whatever the capability
getDelegationProofs(capability) == TypeError

\* _checkZcap: the rule a capability object breaks, or "ok"
CheckZcap(capability) ==
    LET isRoot == capability.parentCapability = UNDEFINED
        proofs == getDelegationProofs(capability)
    IN
    IF isRoot /\ capability.context # ContextString(ZCAP_CONTEXT_URL)
    THEN "root @context"
    ELSE IF isRoot /\ capability.expires.type # "undefined"
    THEN "root expires"
    ELSE IF ~isRoot /\ capability.context # ContextArray(ZCAP_CONTEXT_URL)
    THEN "delegated @context"
    ELSE IF ~isRoot /\ ~IsAbsoluteUri(capability.parentCapability)
    THEN "parentCapability"
    ELSE IF ~isRoot /\ proofs = TypeError
    THEN "getDelegationProofs"
    ELSE IF ~isRoot /\ proofs = <<>>
    THEN "proof"
    ELSE IF ~isRoot /\ proofs[1].created.ms = NaN
    THEN "proof created"
    ELSE IF ~isRoot /\ capability.expires.ms = NaN
    THEN "expires"
    ELSE IF ~IsAbsoluteUri(capability.id)
    THEN "id"
    ELSE IF ~IsAbsoluteUri(capability.invocationTarget)
    THEN "invocationTarget"
    ELSE IF capability.allowedAction.type # "undefined"
            /\ ~(capability.allowedAction.type = "string"
                 \/ (capability.allowedAction.type = "array"
                     /\ Len(capability.allowedAction.items) > 0))
    THEN "allowedAction"
    ELSE "ok"

\* the local `invocationTarget` of request: decoded from a root capability
\* string, read from a capability object, undefined without a capability
RequestTarget(cap) ==
    IF cap.type = "string"
    THEN decodeURIComponent(Substring(cap.str, Len(ZCAP_ROOT_PREFIX)))
    ELSE IF cap.type = "object" THEN cap.obj.invocationTarget
    ELSE UNDEFINED

\* a mutant of IsHttps: http is let through too
IsHttpOrHttps(target) == StartsWith(target, "http")

\* invocationTarget.startsWith('https://')
IsHttps(target) == StartsWith(target, "https://")

\* a mutant of InScope: any url that starts with the target is accepted
InScopeAnyPrefix(url, invocationTarget) ==
    StartsWith(url, invocationTarget)

\* the confused-deputy test: the target is a RESTful prefix of the url, or
\* equal to it
InScope(url, invocationTarget) ==
    StartsWith(url, invocationTarget \o "/") \/ url = invocationTarget

\* a mutant of NothingToInvoke: a missing url is let through
NothingToInvokeUnchecked(a) == FALSE

\* if(url === undefined) { if(!capability) throw ... }
NothingToInvoke(a) ==
    a.url = UNDEFINED /\ ~Truthy(a.capability)

\* the checks of request, in the order of the code: the first that throws
RequestFailure(c, a) ==
    LET cap == a.capability
        invocationTarget == RequestTarget(cap)
    IN
    IF MissingSigner(c, "request")
    THEN Err("MissingSigner", "Error", "invocationSigner")
    ELSE IF cap.type = "string" /\ ~StartsWith(cap.str, ZCAP_ROOT_PREFIX)
    THEN Err("MalformedCapability", "Error", "root prefix")
    ELSE IF cap.type = "string" /\ invocationTarget = URIError
    THEN Err("MalformedCapability", "URIError", "decodeURIComponent")
    ELSE IF cap.type = "string" /\ ~IsHttps(invocationTarget)
    THEN Err("MalformedCapability", "Error", "https")
    ELSE IF cap.type = "object" /\ CheckZcap(cap.obj) # "ok"
    THEN Err("MalformedCapability", "Error", CheckZcap(cap.obj))
    ELSE IF NothingToInvoke(a)
    THEN Err("InvalidArgument", "TypeError", "url or capability")
    ELSE IF a.url # UNDEFINED /\ Truthy(cap)
            /\ ~InScope(a.url, invocationTarget)
    THEN Err("ScopeViolation", "TypeError", "RESTful prefix")
    ELSE NoError

\* a mutant of RequestUrl: the capability's target wins over a given url
RequestUrlPrefersTarget(a) ==
    IF Truthy(a.capability) THEN RequestTarget(a.capability) ELSE a.url

\* the local `url` after "set url to invocation target if not given"
RequestUrl(a) ==
    IF a.url = UNDEFINED THEN RequestTarget(a.capability) ELSE a.url

\* the capability handed to signCapabilityInvocation:
\* capability || await generateZcapUri({url})
RequestCapability(a, n) ==
    IF Truthy(a.capability) THEN a.capability
    ELSE CapString(generateZcapUri(RequestUrl(a), n))

(***************************************************************************)
(* The inputs the calls are tried on.                                      *)
(***************************************************************************)
TargetItems == "https://z/i"
TargetItem1 == "https://z/i/1"
TargetItems2 == "https://z/i2"
TargetOther == "https://z/o"

Controller == "did:key:a"

\* a constructed client has at least one signer (the constructor throws
\* otherwise); agent and defaultHeaders are what the constructor was given
Clients ==
    {[invocationSigner |-> i, delegationSigner |-> d,
      agent |-> "agent", defaultHeaders |-> "accept: json"] :
        <<i, d>> \in {<<TRUE, TRUE>>, <<TRUE, FALSE>>, <<FALSE, TRUE>>}}

\* the capability the caller holds, when there is one
Held == IF held = NoObj THEN {} ELSE {CapObject(held)}

\* the root capability identifier of TargetItems
RootItems == generateZcapUri(TargetItems, 0)

\* the other options of delegate: the plain call, and calls that differ
\* from it in the controller, in expires or in allowedActions
PlainOptions ==
    [controller |-> Controller, expires |-> NoExpires,
     allowedActions |-> NoActions]

DelegateOptions ==
    {PlainOptions}
    \cup {[PlainOptions EXCEPT !.controller = c] : c \in {UNDEFINED, "bob"}}
    \cup {[PlainOptions EXCEPT !.expires = e] :
            e \in {DateString(60000), DateObject(600500), DateString(NaN),
                   [type |-> "other", ms |-> NaN]}}
    \cup {[PlainOptions EXCEPT !.allowedActions = x] :
            x \in {ActionString("read"), ActionArray(<<"read", "write">>),
                   ActionArray(<<>>), [type |-> "other", items |-> <<>>]}}

\* The calls of delegate that are tried, <<capability, invocationTarget,
\* options>>: a root capability (left out, or given as its string) with
\* every option, a held capability with every option, and each of them
\* with the other targets under the plain options; an object without id;
\* the root capability written down as an object.
DelegateInputs ==
    ({CapUndefined, CapString(RootItems)} \X {TargetItems} \X DelegateOptions)
    \cup ({CapUndefined, CapString(RootItems)}
            \X {UNDEFINED, TargetItem1, "items"} \X {PlainOptions})
    \cup (Held \X {UNDEFINED} \X DelegateOptions)
    \cup (Held \X {TargetItems, TargetItem1, TargetOther, "items"}
            \X {PlainOptions})
    \cup {<<CapObject(NoObj), UNDEFINED, PlainOptions>>,
          <<CapObject(RootObject(TargetItems, Controller)), UNDEFINED,
            PlainOptions>>}

RequestUrls ==
    {UNDEFINED, "", TargetItems, TargetItem1, TargetItems2, TargetOther}

RequestCapabilities ==
    {CapUndefined, CapString(""), CapString("urn:uuid:u0"),
     CapString(RootItems),
     CapObject(RootObject(TargetItems, Controller))} \cup Held

\* strings that are no root capability of an HTTPS URL: the root prefix
\* followed by an http URL, by a relative reference, by a broken escape
MalformedStrings ==
    {CapString(ZCAP_ROOT_PREFIX \o encodeURIComponent("http://z/i")),
     CapString(ZCAP_ROOT_PREFIX \o "items"),
     CapString(ZCAP_ROOT_PREFIX \o "https%3A%2F%2Fz%2")}

\* a delegated capability for TargetItems as delegate and the signer make
\* it, and the root capability object: the two well-formed shapes
DelegatedItems ==
    JsigsSign(
        DelegatedCapability(
            [NoCall EXCEPT !.capability = CapString(RootItems),
                           !.controller = Controller,
                           !.invocationTarget = TargetItems], 0, 0),
        CapString(RootItems), 0)

RootItemsObject == RootObject(TargetItems, Controller)

\* an entry of an allowedAction list that is not a string
NotAString == "<number>"

\* objects that differ from a well-formed one in one field
MalformedObjects ==
    {[DelegatedItems EXCEPT !.id = v] : v \in {UNDEFINED, "items-1"}}
    \cup {[DelegatedItems EXCEPT !.invocationTarget = v] :
            v \in {UNDEFINED, "items"}}
    \cup {[DelegatedItems EXCEPT !.parentCapability = "parent"],
          [DelegatedItems EXCEPT !.context = ContextString(ZCAP_CONTEXT_URL)],
          [DelegatedItems EXCEPT !.expires = NoExpires],
          [DelegatedItems EXCEPT !.expires = DateString(NaN)],
          [DelegatedItems EXCEPT !.proof = NoProof],
          [DelegatedItems EXCEPT !.proof.proofPurpose = "assertionMethod"],
          [DelegatedItems EXCEPT !.proof.created = DateString(NaN)],
          [RootItemsObject EXCEPT !.expires = DateString(60000)],
          [RootItemsObject EXCEPT !.context = ContextString("https://z/ctx")],
          [RootItemsObject EXCEPT !.id = "items-1"],
          [RootItemsObject EXCEPT !.invocationTarget = UNDEFINED]}

\* well-formed objects with an allowedAction of every shape
ActionObjects ==
    {[o EXCEPT !.allowedAction = x] :
        o \in {DelegatedItems, RootItemsObject},
        x \in {ActionString("read"), ActionString(""),
               ActionArray(<<"read">>), ActionArray(<<>>),
               ActionArray(<<"read", NotAString>>),
               [type |-> "other", items |-> <<>>]}}

\* the capabilities request validates: with no url and with a url in scope
ValidatedCapabilities ==
    MalformedStrings
    \cup {CapObject(o) :
            o \in {DelegatedItems, RootItemsObject}
                    \cup MalformedObjects \cup ActionObjects}

\* the JSON object write is given
JsonBody == "{a: 1}"

\* what read and write are tried on
ConvenienceUrls == {UNDEFINED, TargetItem1, TargetOther}

ConvenienceCapabilities == {CapUndefined, CapString(RootItems)} \cup Held

\* no scope question asked
NoScope ==
    [t |-> UNDEFINED, u |-> UNDEFINED, v |-> UNDEFINED, done |-> FALSE,
     tt |-> FALSE, tu |-> FALSE, uv |-> FALSE, tv |-> FALSE]

(***************************************************************************)
(* The client: construction and the calls.                                 *)
(***************************************************************************)
Init ==
    /\ client \in Clients
    /\ now = 0
    /\ uuids = 0
    /\ held = NoObj
    /\ call = NoCall
    /\ prev = NoCall
    /\ other = NoCall
    /\ scope = NoScope
    /\ uriIn = UNDEFINED
    /\ uriOut = [done |-> FALSE, threw |-> FALSE, value |-> UNDEFINED]

\* time passes: 300 ms
Tick ==
    /\ now < MaxTicks * 300
    /\ now' = now + 300
    /\ UNCHANGED <<client, uuids, held, call, uriIn,
                 uriOut, prev, other, scope>>

\* delegate({capability, controller, invocationTarget, expires,
\* allowedActions}) up to its call of jsigs.sign
DelegateCall(cap, target, o) ==
    LET a == [NoCall EXCEPT
                !.op = "delegate", !.via = "delegate", !.capability = cap,
                !.controller = o.controller, !.invocationTarget = target,
                !.expires = o.expires, !.allowedActions = o.allowedActions,
                !.at = now]
        err == DelegateFailure(client, a)
    IN  /\ call.pc = "idle"
        /\ uuids < MaxUuids
        /\ IF err # NoError
           THEN /\ call' = [a EXCEPT !.pc = "failed", !.error = err]
                /\ UNCHANGED uuids
           ELSE /\ call' = [a EXCEPT
                    !.pc = "signing",
                    !.signs = a.signs + 1,
                    !.ids = a.ids + 1,
                    !.signed = [NoSigned EXCEPT
                        !.doc = DelegatedCapability(a, now, uuids),
                        !.capability = DelegationPurpose(a, uuids)]]
                /\ uuids' = uuids + 1
        /\ UNCHANGED <<client, now, held, uriIn, uriOut, prev, other, scope>>

\* jsigs.sign returns the signed document, which delegate returns
DelegateSigned ==
    /\ call.op = "delegate" /\ call.pc = "signing"
    /\ LET signedDelegatedCapability ==
               JsigsSign(call.signed.doc, call.signed.capability, now)
       IN  /\ call' = [call EXCEPT !.pc = "done",
                                   !.result = signedDelegatedCapability]
           /\ held' = signedDelegatedCapability
    /\ UNCHANGED <<client, now, uuids, uriIn, uriOut, prev, other, scope>>

\* jsigs.sign throws, and so does delegate
DelegateSignFails ==
    /\ call.op = "delegate" /\ call.pc = "signing"
    /\ call' = [call EXCEPT
            !.pc = "failed", !.error = Err("SigningFailure", "Error", "jsigs.sign")]
    /\ UNCHANGED <<client, now, uuids, held, uriIn,
                 uriOut, prev, other, scope>>

\* request({url, capability, method, action}) up to its call of
\* signCapabilityInvocation, entered through the method `via`
RequestVia(via, url, cap, method, action, json) ==
    LET a == [NoCall EXCEPT
                !.op = "request", !.via = via, !.url = url,
                !.capability = cap, !.json = json,
                !.method = method, !.action = action, !.at = now]
        err == RequestFailure(client, a)
        fresh == err = NoError /\ ~Truthy(cap) /\ UsesUuid(RequestUrl(a))
    IN  /\ call.pc = "idle"
        /\ fresh => uuids < MaxUuids
        /\ IF err # NoError
           THEN call' = [a EXCEPT !.pc = "failed", !.error = err]
           ELSE call' = [a EXCEPT
                    !.pc = "signing",
                    !.signs = a.signs + 1,
                    !.ids = IF fresh THEN a.ids + 1 ELSE a.ids,
                    !.signed = [NoSigned EXCEPT
                        !.url = RequestUrl(a), !.method = method,
                        !.action = action, !.json = json,
                        !.capability = RequestCapability(a, uuids)]]
        /\ uuids' = IF fresh THEN uuids + 1 ELSE uuids
        /\ UNCHANGED <<client, now, held, uriIn, uriOut, prev, other, scope>>

\* request called by the caller
RequestCall(url, cap, method, action) ==
    RequestVia("request", url, cap, method, action, UNDEFINED)

\* a mutant of ReadCall: read sends a POST
ReadCallPosts(url, cap) ==
    RequestVia("read", url, cap, "post", "read", UNDEFINED)

\* read({url, capability}): request with method get and action read
ReadCall(url, cap) ==
    RequestVia("read", url, cap, "get", "read", UNDEFINED)

\* write({url, json, capability}): request with method post and action
\* write
WriteCall(url, cap, json) ==
    RequestVia("write", url, cap, "post", "write", json)

\* a mutant of InvocationSigned: the url is kept where the calls of one
\* client share it, so the request goes to the url of the call that set it
\* last
InvocationSignedSharedUrl ==
    /\ call.op = "request" /\ call.pc = "signing"
    /\ call' = [call EXCEPT
            !.pc = "sending",
            !.sends = call.sends + 1,
            !.sent = [url |-> IF other.op = "request" /\ other.signs > 0
                              THEN RequestUrl(other) ELSE RequestUrl(call),
                      method |-> call.method, json |-> call.json]]
    /\ UNCHANGED <<client, now, uuids, held, uriIn, uriOut, prev, other, scope>>

\* signCapabilityInvocation returns the headers; request calls httpClient
InvocationSigned ==
    /\ call.op = "request" /\ call.pc = "signing"
    /\ call' = [call EXCEPT
            !.pc = "sending",
            !.sends = call.sends + 1,
            !.sent = [url |-> RequestUrl(call), method |-> call.method,
                      json |-> call.json]]
    /\ UNCHANGED <<client, now, uuids, held, uriIn,
                 uriOut, prev, other, scope>>

\* a mutant of InvocationSignFails: the failure is caught and the request
\* is sent without signature headers
InvocationSignFailsSends ==
    /\ call.op = "request" /\ call.pc = "signing"
    /\ call' = [call EXCEPT
            !.pc = "sending",
            !.sends = call.sends + 1,
            !.sent = [url |-> RequestUrl(call), method |-> call.method,
                      json |-> call.json],
            !.error = Err("SigningFailure", "Error", "signCapabilityInvocation")]
    /\ UNCHANGED <<client, now, uuids, held, uriIn,
                 uriOut, prev, other, scope>>

\* signCapabilityInvocation throws, and so does request
InvocationSignFails ==
    /\ call.op = "request" /\ call.pc = "signing"
    /\ call' = [call EXCEPT
            !.pc = "failed",
            !.error = Err("SigningFailure", "Error", "signCapabilityInvocation")]
    /\ UNCHANGED <<client, now, uuids, held, uriIn,
                 uriOut, prev, other, scope>>

\* httpClient answers, with whatever status; request returns the response
HttpResponds ==
    /\ call.op = "request" /\ call.pc = "sending"
    /\ \E status \in {200, 404} :
          call' = [call EXCEPT !.pc = "done", !.status = status]
    /\ UNCHANGED <<client, now, uuids, held, uriIn,
                 uriOut, prev, other, scope>>

\* a mutant of HttpFails: the request is sent once more
HttpFailsRetries ==
    /\ call.op = "request" /\ call.pc = "sending"
    /\ call.sends < 3
    /\ call' = [call EXCEPT !.sends = call.sends + 1]
    /\ UNCHANGED <<client, now, uuids, held, uriIn,
                 uriOut, prev, other, scope>>

\* httpClient throws, and so does request
HttpFails ==
    /\ call.op = "request" /\ call.pc = "sending"
    /\ call' = [call EXCEPT
            !.pc = "failed",
            !.error = Err("TransportFailure", "Error", "httpClient")]
    /\ UNCHANGED <<client, now, uuids, held, uriIn,
                 uriOut, prev, other, scope>>

\* the caller has the result, or the error, of the call
Return ==
    /\ call.pc \in {"done", "failed"}
    /\ call' = NoCall
    /\ UNCHANGED <<client, now, uuids, held, uriIn,
                 uriOut, prev, other, scope>>

Delegate ==
    /\ call.pc = "idle"
    /\ \E i \in DelegateInputs : DelegateCall(i[1], i[2], i[3])

Request ==
    /\ call.pc = "idle"
    /\ \/ \E url \in RequestUrls, cap \in RequestCapabilities :
             RequestCall(url, cap, "get", "read")
       \/ \E url \in {UNDEFINED, TargetItem1}, cap \in ValidatedCapabilities :
             RequestCall(url, cap, "get", "read")

Read ==
    /\ call.pc = "idle"
    /\ \E url \in ConvenienceUrls, cap \in ConvenienceCapabilities :
          ReadCall(url, cap)

Write ==
    /\ call.pc = "idle"
    /\ \E url \in ConvenienceUrls, cap \in ConvenienceCapabilities :
          WriteCall(url, cap, JsonBody)

Next ==
    \/ Tick
    \/ Delegate
    \/ DelegateSigned
    \/ DelegateSignFails
    \/ Request
    \/ Read
    \/ Write
    \/ InvocationSigned
    \/ InvocationSignFails
    \/ HttpResponds
    \/ HttpFails
    \/ Return

Spec == Init /\ [][Next]_vars

(***************************************************************************)
(* Successive delegations: the caller delegates again and again and keeps  *)
(* the call that last returned a capability, to compare the next with.     *)
(***************************************************************************)
InitDelegations ==
    /\ client \in {c \in Clients : c.delegationSigner}
    /\ now = 0
    /\ uuids = 0
    /\ held = NoObj
    /\ call = NoCall
    /\ prev = NoCall
    /\ other = NoCall
    /\ scope = NoScope
    /\ uriIn = UNDEFINED
    /\ uriOut = [done |-> FALSE, threw |-> FALSE, value |-> UNDEFINED]

\* the caller has the result, or the error, of the call, and keeps a call
\* that returned a capability
ReturnKept ==
    /\ call.pc \in {"done", "failed"}
    /\ call' = NoCall
    /\ prev' = IF call.pc = "done" THEN call ELSE prev
    /\ UNCHANGED <<client, now, uuids, held, uriIn, uriOut, other, scope>>

NextDelegations ==
    \/ Tick
    \/ Delegate
    \/ DelegateSigned
    \/ DelegateSignFails
    \/ ReturnKept

SpecDelegations == InitDelegations /\ [][NextDelegations]_vars

(***************************************************************************)
(* Concurrent calls: two calls of one client are in flight and take their  *)
(* steps in any order.  The steps are those of the calls above, taken by   *)
(* the call that runs; at an await the other call may run.                 *)
(***************************************************************************)
ConcurrentDelegateInputs ==
    {<<CapUndefined, TargetItems, PlainOptions>>,
     <<CapString(RootItems), TargetItem1, PlainOptions>>,
     <<CapUndefined, UNDEFINED, PlainOptions>>}
    \cup (Held \X {UNDEFINED} \X {PlainOptions})

ConcurrentRequestInputs ==
    {UNDEFINED, TargetItem1, TargetOther}
        \X {CapUndefined, CapString(RootItems)}

\* the running call is suspended, or has not begun, and the other one runs
Switch ==
    /\ call' = other
    /\ other' = call
    /\ call # other
    /\ UNCHANGED <<client, now, uuids, held, prev, scope, uriIn, uriOut>>

ConcurrentDelegate ==
    /\ call.pc = "idle"
    /\ \E i \in ConcurrentDelegateInputs : DelegateCall(i[1], i[2], i[3])

ConcurrentRequest ==
    /\ call.pc = "idle"
    /\ \E i \in ConcurrentRequestInputs :
          RequestCall(i[1], i[2], "get", "read")

NextConcurrent ==
    \/ Switch
    \/ ConcurrentDelegate
    \/ DelegateSigned
    \/ DelegateSignFails
    \/ ConcurrentRequest
    \/ InvocationSigned
    \/ InvocationSignFails
    \/ HttpResponds
    \/ HttpFails
    \/ Return

SpecConcurrent == Init /\ [][NextConcurrent]_vars

(***************************************************************************)
(* The identifier scheme alone: generateZcapUri on every string of up to   *)
(* MaxLen characters of UriAlphabet, and on a missing url.                 *)
(***************************************************************************)
UriAlphabet == {"a", ":", "/", "%", "2"}

RECURSIVE StringsUpTo(_)
StringsUpTo(n) ==
    IF n = 0 THEN {""}
    ELSE LET shorter == StringsUpTo(n - 1)
         IN  shorter \cup {s \o c : s \in shorter, c \in UriAlphabet}

UriInputs == StringsUpTo(MaxLen) \cup {UNDEFINED}

InitUri ==
    /\ client \in {c \in Clients : c.invocationSigner /\ c.delegationSigner}
    /\ now = 0
    /\ uuids = 0
    /\ held = NoObj
    /\ call = NoCall
    /\ prev = NoCall
    /\ other = NoCall
    /\ scope = NoScope
    /\ uriIn \in UriInputs
    /\ uriOut = [done |-> FALSE, threw |-> FALSE, value |-> UNDEFINED]

\* generateZcapUri({url: uriIn}): no statement of it throws
GenerateZcapUri ==
    /\ ~uriOut.done
    /\ uriOut' = [done |-> TRUE, threw |-> FALSE,
                  value |-> generateZcapUri(uriIn, uuids)]
    /\ uuids' = IF UsesUuid(uriIn) THEN uuids + 1 ELSE uuids
    /\ UNCHANGED <<client, now, held, call, uriIn, prev, other, scope>>

NextUri == GenerateZcapUri

SpecUri == InitUri /\ [][NextUri]_vars

(***************************************************************************)
(* The confused-deputy test alone: request's test of a url against an      *)
(* invocationTarget, applied to the pairs of three URLs.                   *)
(***************************************************************************)
ScopeAlphabet == {"a", "/"}

RECURSIVE ScopePaths(_)
ScopePaths(n) ==
    IF n = 0 THEN {""}
    ELSE LET shorter == ScopePaths(n - 1)
         IN  shorter \cup {s \o c : s \in shorter, c \in ScopeAlphabet}

\* https://z followed by up to MaxLen characters: hosts and paths
ScopeUrls == {"https://z" \o p : p \in ScopePaths(MaxLen)}

InitScope ==
    /\ client \in {c \in Clients : c.invocationSigner /\ c.delegationSigner}
    /\ now = 0
    /\ uuids = 0
    /\ held = NoObj
    /\ call = NoCall
    /\ prev = NoCall
    /\ other = NoCall
    /\ \E t \in ScopeUrls, u \in ScopeUrls, v \in ScopeUrls :
          scope = [NoScope EXCEPT !.t = t, !.u = u, !.v = v]
    /\ uriIn = UNDEFINED
    /\ uriOut = [done |-> FALSE, threw |-> FALSE, value |-> UNDEFINED]

\* a mutant of ScopeChecked: the url is accepted only under the target,
\* not when it is the target
ScopeCheckedChildOnly ==
    /\ ~scope.done
    /\ scope' = [scope EXCEPT
            !.done = TRUE,
            !.tt = StartsWith(scope.t, scope.t \o "/"),
            !.tu = StartsWith(scope.u, scope.t \o "/"),
            !.uv = StartsWith(scope.v, scope.u \o "/"),
            !.tv = StartsWith(scope.v, scope.t \o "/")]
    /\ UNCHANGED <<client, now, uuids, held, call, prev, other, uriIn, uriOut>>

\* the test of request, for the url t, u and v against the target t, and
\* for the url v against the target u: TRUE where request does not throw
ScopeChecked ==
    /\ ~scope.done
    /\ scope' = [scope EXCEPT
            !.done = TRUE,
            !.tt = InScope(scope.t, scope.t),
            !.tu = InScope(scope.u, scope.t),
            !.uv = InScope(scope.v, scope.u),
            !.tv = InScope(scope.v, scope.t)]
    /\ UNCHANGED <<client, now, uuids, held, call, prev, other, uriIn, uriOut>>

NextScope == ScopeChecked

SpecScope == InitScope /\ [][NextScope]_vars

(***************************************************************************)
(* Properties.                                                             *)
(***************************************************************************)
\* url is the target or lies under it in the path hierarchy
UnderTarget(url, target) ==
    url = target
    \/ (Len(url) > Len(target)
        /\ SubSeq(url, 1, Len(target) + 1) = target \o "/")

\* a capability argument that request's validation lets through
WellFormed(cap) ==
    \/ cap.type = "string"
       /\ StartsWith(cap.str, ZCAP_ROOT_PREFIX)
       /\ StartsWith(RequestTarget(cap), "https://")
    \/ cap.type = "object" /\ CheckZcap(cap.obj) = "ok"

\* the call made nothing known to a collaborator
NothingSignedOrSent == call.signs = 0 /\ call.sends = 0

\* C1: a request given both a url and a capability reaches the signing
\* collaborator or the transport only if the url is the capability's
\* invocationTarget or starts with invocationTarget + "/", and what it
\* sends goes to the url given; when the url is out of that scope (and
\* the client has an invocation signer and the capability is well-formed,
\* so that the scope check is reached) the call fails with ScopeViolation
\* and neither collaborator is invoked.
C1_ScopeEnforced ==
    (call.op = "request" /\ call.url # UNDEFINED
        /\ call.capability.type # "undefined")
    => /\ ~NothingSignedOrSent
            => UnderTarget(call.url, RequestTarget(call.capability))
       /\ call.signs > 0 => call.signed.url = call.url
       /\ call.sends > 0 => call.sent.url = call.url
       /\ (client.invocationSigner /\ WellFormed(call.capability)
            /\ ~UnderTarget(call.url, RequestTarget(call.capability)))
            => /\ call.pc = "failed"
               /\ call.error.kind = "ScopeViolation"
               /\ NothingSignedOrSent

\* C1 witness: the target https://z/i with the url https://z/i2 is refused
C1_Witness ==
    /\ call.op = "request" /\ call.pc = "failed"
    /\ call.url = TargetItems2
    /\ call.capability = CapString(RootItems)
    /\ call.error.kind = "ScopeViolation"
    /\ NothingSignedOrSent

\* C2 (as claimed): delegate from a capability object with an explicit
\* invocationTarget yields a capability only if the new target is the
\* parent's target or lies under it.
C2_TargetNeverWidens ==
    (call.op = "delegate" /\ call.pc = "done"
        /\ call.capability.type = "object"
        /\ call.invocationTarget # UNDEFINED)
    => UnderTarget(call.result.invocationTarget,
                   call.capability.obj.invocationTarget)

\* the parent named by a delegate call: the capability given, else the
\* root capability of the target given
ParentIdOfCall ==
    IF call.capability.type = "object" THEN call.capability.obj.id
    ELSE IF call.capability.type = "string" /\ call.capability.str # ""
    THEN call.capability.str
    ELSE ZCAP_ROOT_PREFIX \o encodeURIComponent(call.invocationTarget)

\* the length of that parent's capabilityChain: 0 for a root capability
ParentChainLength ==
    IF call.capability.type = "object"
       /\ call.capability.obj.parentCapability # UNDEFINED
    THEN Len(call.capability.obj.proof.capabilityChain)
    ELSE 0

\* C3: the document a delegate call returns has the parent's identifier as
\* parentCapability, and a capabilityChain one longer than the parent's.
C3_ParentAndChain ==
    (call.op = "delegate" /\ call.pc = "done")
    => /\ call.result.parentCapability = ParentIdOfCall
       /\ Len(call.result.proof.capabilityChain) = ParentChainLength + 1

\* C3 witness: a second delegation, from a delegated capability: chain 2
C3_Witness ==
    /\ call.op = "delegate" /\ call.pc = "done"
    /\ call.capability.type = "object"
    /\ Len(call.capability.obj.proof.capabilityChain) = 1
    /\ call.result.parentCapability = call.capability.obj.id
    /\ Len(call.result.proof.capabilityChain) = 2

\* C4 (as claimed): delegate from a delegated capability that carries an
\* expires yields a capability whose expires is present and not later
\* than the parent's.
C4_ExpiresWithinParent ==
    (call.op = "delegate" /\ call.pc = "done"
        /\ call.capability.type = "object"
        /\ call.capability.obj.expires.type # "undefined")
    => /\ call.result.expires.type = "string"
       /\ call.result.expires.ms # NaN
       /\ call.result.expires.ms <= call.capability.obj.expires.ms

\* C5: a request given neither url nor capability, on a client that has
\* an invocation signer, fails with InvalidArgument, a TypeError, and
\* nothing is signed or sent.
C5_NeitherUrlNorCapability ==
    (call.op = "request" /\ client.invocationSigner
        /\ call.url = UNDEFINED /\ call.capability.type = "undefined")
    => /\ call.pc = "failed"
       /\ call.error.kind = "InvalidArgument"
       /\ call.error.class = "TypeError"
       /\ NothingSignedOrSent

\* C5 witness: such a call has been made
C5_Witness ==
    /\ call.op = "request" /\ call.pc = "failed"
    /\ call.url = UNDEFINED /\ call.capability.type = "undefined"
    /\ call.error.kind = "InvalidArgument"

\* the invocationTarget of a well-formed capability argument, read off the
\* argument: the URL a root capability string encodes, the object's field
TargetOfCapability(cap) ==
    IF cap.type = "object" THEN cap.obj.invocationTarget
    ELSE CHOOSE u \in {TargetItems, TargetItem1, TargetItems2, TargetOther} :
            cap.str = ZCAP_ROOT_PREFIX \o encodeURIComponent(u)

\* C6: the URL a request signs and sends is the url given, whenever one is
\* given, and the capability's invocationTarget otherwise.
C6_UrlSignedAndSent ==
    (call.op = "request" /\ call.signs > 0)
    => LET expected ==
               IF call.url # UNDEFINED THEN call.url
               ELSE TargetOfCapability(call.capability)
       IN  /\ call.signed.url = expected
           /\ call.sends > 0 => call.sent.url = expected

\* C6 witness: a request with a capability for https://z/i and the url
\* https://z/i/1 was sent to https://z/i/1
C6_Witness ==
    /\ call.op = "request" /\ call.pc = "done"
    /\ call.capability.type # "undefined"
    /\ TargetOfCapability(call.capability) = TargetItems
    /\ call.url = TargetItem1
    /\ call.sent.url = TargetItem1

\* C7 (as claimed): a request with a url (any value but undefined) and no
\* capability signs with the root capability identifier of that url.
C7_RootCapabilitySynthesized ==
    (call.op = "request" /\ call.signs > 0
        /\ call.capability.type = "undefined" /\ call.url # UNDEFINED)
    => call.signed.capability =
           CapString(ZCAP_ROOT_PREFIX \o encodeURIComponent(call.signed.url))

\* an absolute URL: a scheme (a letter, then letters or digits), then ":"
AbsoluteUrl(u) ==
    /\ u # UNDEFINED
    /\ \E i \in 2..Len(u) :
          /\ CharAt(u, i) = ":"
          /\ CharAt(u, 1) = "a"
          /\ \A j \in 1..(i - 1) : CharAt(u, j) \in {"a", "2"}

\* C8: for an absolute URL u, generateZcapUri({url: u}) is the root prefix
\* followed by a string that percent-decodes to u, and no other absolute
\* URL has the same identifier.
C8_RoundTrip ==
    (uriOut.done /\ AbsoluteUrl(uriIn))
    => /\ ~uriOut.threw
       /\ StartsWith(uriOut.value, ZCAP_ROOT_PREFIX)
       /\ decodeURIComponent(
              Substring(uriOut.value, Len(ZCAP_ROOT_PREFIX))) = uriIn
       /\ \A v \in UriInputs :
              (AbsoluteUrl(v) /\ v # uriIn)
              => generateZcapUri(v, 0) # uriOut.value

\* C8 witness: the identifier of an absolute URL that holds a "%"
C8_Witness ==
    /\ uriOut.done
    /\ uriIn = "a:%"
    /\ uriOut.value = "urn:zcap:root:a%3A%25"

\* C9 (as claimed): generateZcapUri({url}) throws for a url that is not an
\* absolute URI, and returns no identifier.
C9_RelativeUrlRejected ==
    (uriOut.done /\ ~AbsoluteUrl(uriIn)) => uriOut.threw

\* C10 (as claimed): delegate with a controller that is missing, or is not
\* a string with a scheme separator, signs nothing and returns nothing.
C10_ControllerChecked ==
    (call.op = "delegate"
        /\ (call.controller = UNDEFINED \/ ~Includes(call.controller, ":")))
    => call.signs = 0 /\ call.pc \notin {"signing", "done"}

\* the document of a delegate call that got as far as signing: the one
\* returned, or the one handed to the signer
Document == IF call.pc = "done" THEN call.result ELSE call.signed.doc

Produced == call.op = "delegate" /\ call.pc \in {"signing", "done"}

\* C11: delegate given neither a capability nor an invocationTarget, on a
\* client that has a delegation signer, fails with InvalidArgument (a
\* TypeError, "at least one of capability and invocationTarget") and has
\* then generated no identifier, built no document and signed nothing.
C11_NothingToDelegate ==
    (call.op = "delegate" /\ client.delegationSigner
        /\ call.capability.type = "undefined"
        /\ call.invocationTarget = UNDEFINED)
    => /\ call.pc = "failed"
       /\ call.error =
            Err("InvalidArgument", "TypeError", "capability or invocationTarget")
       /\ call.ids = 0 /\ call.signs = 0
       /\ call.signed = NoSigned /\ call.result = NoObj

\* C11 witness: such a call has failed
C11_Witness ==
    /\ call.op = "delegate" /\ call.pc = "failed"
    /\ call.capability.type = "undefined"
    /\ call.invocationTarget = UNDEFINED
    /\ call.error.kind = "InvalidArgument"
    /\ uuids = 0

\* C12: a delegate call given an expires that denotes no instant (or is
\* neither a string nor a Date) signs nothing and, on a client with a
\* delegation signer, fails with InvalidArgument; the expires of every
\* document a delegate call hands to the signer or returns is a string
\* that denotes an instant.
C12_ExpiresMustParse ==
    call.op = "delegate"
    => /\ (call.expires.type # "undefined"
            /\ (call.expires.type \notin {"string", "date"}
                \/ call.expires.ms = NaN))
            => /\ call.signs = 0 /\ ~Produced
               /\ client.delegationSigner
                    => /\ call.pc = "failed"
                       /\ call.error.kind = "InvalidArgument"
       /\ Produced
            => /\ Document.expires.type = "string"
               /\ Document.expires.ms # NaN

\* C12 witness: expires "not a date" was refused
C12_Witness ==
    /\ call.op = "delegate" /\ call.pc = "failed"
    /\ call.expires = DateString(NaN)
    /\ call.error = Err("InvalidArgument", "Error", "expires valid date")
    /\ call.signs = 0

\* C13: a delegate call made at time t without expires yields a document
\* whose expires e has t + 4 minutes <= e <= t + 6 minutes.
C13_DefaultExpires ==
    (Produced /\ call.expires.type = "undefined")
    => /\ Document.expires.type = "string"
       /\ call.at + 4 * 60 * 1000 <= Document.expires.ms
       /\ Document.expires.ms <= call.at + 6 * 60 * 1000

\* C13 witness: called at 300 ms, the document expires at 300 s (the
\* default is cut to whole seconds)
C13_Witness ==
    /\ call.op = "delegate" /\ call.pc = "done"
    /\ call.expires.type = "undefined"
    /\ call.at = 300
    /\ call.result.expires = DateString(300000)

SameCallAgain ==
    /\ call.op = "delegate" /\ call.pc = "done"
    /\ prev.op = "delegate"
    /\ call.capability = prev.capability
    /\ call.invocationTarget = prev.invocationTarget
    /\ call.controller = prev.controller
    /\ call.expires = prev.expires
    /\ call.allowedActions = prev.allowedActions

\* C15: two delegate calls with the same parent and the same options
\* return documents with different ids and the same controller,
\* parentCapability, invocationTarget and allowedAction.
C15_TwiceSameOptions ==
    SameCallAgain
    => /\ call.result.id # prev.result.id
       /\ call.result.controller = prev.result.controller
       /\ call.result.parentCapability = prev.result.parentCapability
       /\ call.result.invocationTarget = prev.result.invocationTarget
       /\ call.result.allowedAction = prev.result.allowedAction

\* C15 witness: the root capability of https://z/i delegated twice with
\* allowedActions "read", 300 ms apart
C15_Witness ==
    /\ SameCallAgain
    /\ call.capability = CapString(RootItems)
    /\ call.allowedActions = ActionString("read")
    /\ prev.at = 0 /\ call.at = 300
    /\ prev.result.id = "urn:uuid:u0"
    /\ call.result.id = "urn:uuid:u1"

\* C16: the document of a delegate call that was given no invocationTarget
\* has the parent's target: the invocationTarget of a parent object (for
\* the root capability object that is the root URL, the one its id
\* encodes), the URL a root capability string encodes.
C16_TargetInherited ==
    (Produced /\ call.invocationTarget = UNDEFINED)
    => LET parent == call.capability
           rootUrl(id) == decodeURIComponent(Substring(id, Len(ZCAP_ROOT_PREFIX)))
       IN  /\ parent.type = "object"
                => Document.invocationTarget = parent.obj.invocationTarget
           /\ (parent.type = "object"
                /\ parent.obj.parentCapability = UNDEFINED)
                => Document.invocationTarget = rootUrl(parent.obj.id)
           /\ parent.type = "string"
                => Document.invocationTarget = rootUrl(parent.str)

\* C16 witness: delegated from the root capability object of https://z/i
C16_Witness ==
    /\ call.op = "delegate" /\ call.pc = "done"
    /\ call.invocationTarget = UNDEFINED
    /\ call.capability = CapObject(RootObject(TargetItems, Controller))
    /\ call.result.invocationTarget = TargetItems

\* the request got past the validation of its capability argument
PastValidation ==
    /\ call.op = "request" /\ call.pc # "idle"
    /\ call.error.kind \notin {"MissingSigner", "MalformedCapability"}

\* the request was stopped by the validation of its capability argument
StoppedAsMalformed ==
    /\ call.pc = "failed"
    /\ call.error.kind = "MalformedCapability"
    /\ NothingSignedOrSent

\* a string that is the root prefix followed by the percent-encoding of an
\* absolute HTTPS URL
RootOfHttpsUrl(str) ==
    /\ Len(str) >= Len(ZCAP_ROOT_PREFIX)
    /\ SubSeq(str, 1, Len(ZCAP_ROOT_PREFIX)) = ZCAP_ROOT_PREFIX
    /\ LET url == decodeURIComponent(
                      SubSeq(str, Len(ZCAP_ROOT_PREFIX) + 1, Len(str)))
       IN  /\ url # URIError
           /\ Len(url) >= 8
           /\ SubSeq(url, 1, 8) = "https://"

\* C17: a request given a string as capability gets past validation, and
\* signs or sends, only if the string is the root prefix followed by the
\* encoding of an absolute HTTPS URL; with any other string (on a client
\* with an invocation signer) it fails with MalformedCapability and
\* nothing is signed or sent.
C17_StringCapability ==
    (call.op = "request" /\ call.capability.type = "string")
    => /\ (PastValidation \/ ~NothingSignedOrSent)
            => RootOfHttpsUrl(call.capability.str)
       /\ (client.invocationSigner /\ ~RootOfHttpsUrl(call.capability.str))
            => StoppedAsMalformed

\* C17 witness: the root capability of an http URL was refused
C17_Witness ==
    /\ call.op = "request"
    /\ call.capability = CapString("urn:zcap:root:http%3A%2F%2Fz%2Fi")
    /\ StoppedAsMalformed
    /\ call.error.at = "https"

\* the shape the design asks of a capability object
ShapedCapability(o) ==
    /\ o.id # UNDEFINED /\ \E i \in 1..Len(o.id) : CharAt(o.id, i) = ":"
    /\ o.invocationTarget # UNDEFINED
    /\ \E i \in 1..Len(o.invocationTarget) :
            CharAt(o.invocationTarget, i) = ":"
    /\ \/ o.parentCapability = UNDEFINED /\ o.expires.type = "undefined"
       \/ /\ o.parentCapability # UNDEFINED
          /\ \E i \in 1..Len(o.parentCapability) :
                CharAt(o.parentCapability, i) = ":"
          /\ o.expires.type = "string" /\ o.expires.ms # NaN
          /\ o.proof.present
          /\ o.proof.proofPurpose = "capabilityDelegation"
          /\ o.proof.created.ms # NaN

\* C18: a request given a capability object gets past validation, and signs
\* or sends, only if the object has an id and an invocationTarget that are
\* strings with a ":", and either no parentCapability and no expires, or a
\* parentCapability with a ":", an expires that parses and a delegation
\* proof whose created parses; otherwise (on a client with an invocation
\* signer) it fails with MalformedCapability, nothing signed or sent.
C18_ObjectCapability ==
    (call.op = "request" /\ call.capability.type = "object")
    => /\ (PastValidation \/ ~NothingSignedOrSent)
            => ShapedCapability(call.capability.obj)
       /\ (client.invocationSigner /\ ~ShapedCapability(call.capability.obj))
            => StoppedAsMalformed

\* C18 witness: a root capability object whose id is no absolute URI was
\* refused for its id
C18_Witness ==
    /\ call.op = "request"
    /\ call.capability = CapObject([RootItemsObject EXCEPT !.id = "items-1"])
    /\ StoppedAsMalformed
    /\ call.error.at = "id"

\* an allowedAction the design allows: absent, a non-empty string, or a
\* non-empty list of strings
AllowedActionShaped(x) ==
    \/ x.type = "undefined"
    \/ x.type = "string" /\ x.items[1] # ""
    \/ /\ x.type = "array" /\ x.items # <<>>
       /\ \A i \in 1..Len(x.items) : x.items[i] # NotAString

\* C19 (as claimed): a request given a capability object whose allowedAction
\* is present and is neither a non-empty string nor a non-empty list of
\* strings fails with MalformedCapability (on a client with an invocation
\* signer), and an object is not refused for an absent allowedAction.
C19_AllowedActionChecked ==
    (call.op = "request" /\ call.capability.type = "object"
        /\ client.invocationSigner)
    => /\ ~AllowedActionShaped(call.capability.obj.allowedAction)
            => StoppedAsMalformed
       /\ call.capability.obj.allowedAction.type = "undefined"
            => call.error.at # "allowedAction"

\* the call failed at its first statement: nothing was looked at, generated,
\* signed or sent
FailedForSigner(at) ==
    /\ call.pc = "failed"
    /\ call.error = Err("MissingSigner", "Error", at)
    /\ call.ids = 0
    /\ NothingSignedOrSent
    /\ call.signed = NoSigned /\ call.sent = NoSent /\ call.result = NoObj

\* C20: on a client without a delegation signer every delegate call fails
\* with MissingSigner, and on a client without an invocation signer every
\* request, read and write call does, whatever the arguments and with no
\* identifier generated and nothing signed or sent; a call of the
\* operation whose signer the client has does not fail with MissingSigner.
C20_MissingSignerFirst ==
    /\ (call.op = "delegate" /\ ~client.delegationSigner)
            => FailedForSigner("delegationSigner")
    /\ (call.op = "request" /\ ~client.invocationSigner)
            => FailedForSigner("invocationSigner")
    /\ (call.op = "delegate" /\ client.delegationSigner)
            => call.error.kind # "MissingSigner"
    /\ (call.op = "request" /\ client.invocationSigner)
            => call.error.kind # "MissingSigner"

\* C20 witness: a client without an invocation signer has delegated a
\* capability, and its write call failed
C20_Witness ==
    /\ ~client.invocationSigner
    /\ held # NoObj
    /\ call.via = "write"
    /\ FailedForSigner("invocationSigner")

\* what a request call with these arguments signs and dispatches: the
\* method, action and body given, the url given or else the capability's
\* target, the capability given or else the root capability of the url
SignsAsRequest(c, method, action, body) ==
    /\ c.signed.method = method /\ c.signed.action = action
    /\ c.signed.json = body
    /\ c.signed.url =
            IF c.url # UNDEFINED THEN c.url
            ELSE TargetOfCapability(c.capability)
    /\ c.capability.type # "undefined"
            => c.signed.capability = c.capability

SendsAsRequest(c, method, body) ==
    /\ c.sent.method = method /\ c.sent.json = body
    /\ c.sent.url = c.signed.url

\* C21: a read call is a request call with method get, action read and no
\* body, a write call one with method post, action write and the JSON
\* body given: it fails before signing exactly when request's checks
\* fail, with the same error, it signs those inputs and it dispatches
\* that request.
C21_ReadWriteAreRequest ==
    (call.op = "request" /\ call.via \in {"read", "write"})
    => LET method == IF call.via = "read" THEN "get" ELSE "post"
           action == IF call.via = "read" THEN "read" ELSE "write"
           body == IF call.via = "read" THEN UNDEFINED ELSE JsonBody
           failure == RequestFailure(client, call)
       IN  /\ call.method = method /\ call.action = action
           /\ call.json = body
           /\ failure # NoError
                => /\ call.pc = "failed" /\ call.error = failure
                   /\ NothingSignedOrSent
           /\ failure = NoError => call.signs = 1
           /\ call.signs > 0 => SignsAsRequest(call, method, action, body)
           /\ call.sends > 0 => SendsAsRequest(call, method, body)

\* C21 witness: a write to https://z/i/1 under the root capability of
\* https://z/i was dispatched as a POST with the body
C21_Witness ==
    /\ call.via = "write" /\ call.pc = "done"
    /\ call.capability = CapString(RootItems)
    /\ call.signed.action = "write"
    /\ call.sent = [url |-> TargetItem1, method |-> "post", json |-> JsonBody]

\* C22: while a call runs, the capability it was given stays as it was
\* given; the capability the caller holds changes only by being replaced
\* with the document a delegate call has just returned; and that document
\* is a new one, with an id that is not its parent's.
C22_NoMutation ==
    [][/\ (call.pc # "idle" /\ call'.pc # "idle")
            => call'.capability = call.capability
       /\ held' # held
            => /\ call'.op = "delegate" /\ call'.pc = "done"
               /\ held' = call'.result
       /\ (call'.op = "delegate" /\ call'.pc = "done")
            => /\ call'.capability.type = "object"
                    => call'.result.id # call'.capability.obj.id
               /\ call'.capability.type = "string"
                    => call'.result.id # call'.capability.str]_vars

\* C22 witness: a delegated capability was delegated again; the document
\* returned has its own id and the parent still has its proof
C22_Witness ==
    /\ call.op = "delegate" /\ call.pc = "done"
    /\ call.capability.type = "object"
    /\ call.capability.obj.proof.present
    /\ call.capability.obj.id = "urn:uuid:u0"
    /\ call.result.id = "urn:uuid:u1"

\* what call c did is what its own arguments ask for: a request fails
\* before signing as its own arguments make it, signs and dispatches its
\* own url, method and capability; a delegate call's document has the
\* controller, parent, target and actions of its own arguments
AsAlone(c) ==
    /\ c.op = "request"
        => /\ (c.pc = "failed" /\ c.signs = 0)
                <=> RequestFailure(client, c) # NoError
           /\ c.signs = 0 => c.error = RequestFailure(client, c)
           /\ c.signs > 0
                => /\ SignsAsRequest(c, c.method, c.action, c.json)
                   /\ (c.capability.type = "undefined" /\ c.url # "")
                        => c.signed.capability = CapString(
                              ZCAP_ROOT_PREFIX \o encodeURIComponent(c.url))
           /\ c.sends > 0 => SendsAsRequest(c, c.method, c.json)
    /\ c.op = "delegate"
        => /\ (c.pc = "failed" /\ c.signs = 0)
                <=> DelegateFailure(client, c) # NoError
           /\ c.signs = 0 => c.error = DelegateFailure(client, c)
           /\ c.signs > 0
                => LET doc == IF c.pc = "done" THEN c.result ELSE c.signed.doc
                   IN  /\ doc.controller = c.controller
                       /\ doc.parentCapability =
                            IF c.capability.type = "object"
                            THEN c.capability.obj.id
                            ELSE IF c.capability.type = "string"
                            THEN c.capability.str
                            ELSE ZCAP_ROOT_PREFIX
                                    \o encodeURIComponent(c.invocationTarget)
                       /\ doc.invocationTarget =
                            IF c.invocationTarget # UNDEFINED
                            THEN c.invocationTarget
                            ELSE c.capability.obj.invocationTarget
                       /\ doc.expires.ms = ((c.at + 300000) \div 1000) * 1000

\* C23: with two calls of one client in flight and their steps interleaved
\* in any order, each call fails, signs, dispatches and returns as its own
\* arguments ask, two delegate calls return documents with different ids,
\* and the client is never changed.
C23_Interleaved ==
    /\ [](/\ AsAlone(call) /\ AsAlone(other)
          /\ (call.op = "delegate" /\ other.op = "delegate"
                /\ call.signs > 0 /\ other.signs > 0)
                => call.signed.doc.id # other.signed.doc.id)
    /\ [][client' = client]_vars

\* C23 witness: a request for https://z/o is dispatched while a request
\* for https://z/i/1 begun before it is still being signed
C23_Witness ==
    /\ other.op = "request" /\ other.pc = "signing"
    /\ other.signed.url = TargetItem1
    /\ call.op = "request" /\ call.pc = "sending"
    /\ call.sent.url = TargetOther

\* C24: a call invokes the signing collaborator at most once and the
\* transport at most once, a delegate call never the transport; when a
\* collaborator throws the call has failed with that failure: after a
\* signing failure nothing was sent, and a transport failure follows the
\* one signature and the one dispatch of the call.
C24_NoRetry ==
    /\ call.signs <= 1 /\ call.sends <= 1
    /\ call.op = "delegate" => call.sends = 0
    /\ call.pc = "signing" => call.signs = 1 /\ call.sends = 0
    /\ call.pc = "sending" => call.signs = 1 /\ call.sends = 1
    /\ call.error.kind = "SigningFailure"
        => call.pc = "failed" /\ call.signs = 1 /\ call.sends = 0
    /\ call.error.kind = "TransportFailure"
        => call.pc = "failed" /\ call.signs = 1 /\ call.sends = 1

\* C24 witness: the transport threw, after one signature and one dispatch
C24_Witness ==
    /\ call.op = "request" /\ call.pc = "failed"
    /\ call.error.kind = "TransportFailure"
    /\ call.sends = 1

\* the failures of request that its arguments and the client decide
ArgumentFailures ==
    {"InvalidArgument", "MalformedCapability", "ScopeViolation",
     "MissingSigner"}

\* C25: a request sends only after its one signature was made without
\* failure; a failure of kind InvalidArgument, MalformedCapability,
\* ScopeViolation or MissingSigner leaves nothing signed or sent; and the
\* checks come in the order signer, capability, url: without an invocation
\* signer the failure is MissingSigner whatever the arguments, a malformed
\* capability is refused as such whatever the url, and a request fails for
\* its url, or signs, only with a signer and a capability that is absent or
\* well-formed.
C25_RequestOrder ==
    call.op = "request"
    => LET validated == call.capability.type = "undefined"
                            \/ WellFormed(call.capability)
       IN  /\ call.sends > 0
                => call.signs = 1 /\ call.error.kind # "SigningFailure"
           /\ call.error.kind \in ArgumentFailures
                => call.pc = "failed" /\ NothingSignedOrSent
           /\ ~client.invocationSigner => call.error.kind = "MissingSigner"
           /\ (client.invocationSigner /\ ~validated)
                => call.error.kind = "MalformedCapability"
           /\ (call.error.kind \in {"InvalidArgument", "ScopeViolation"}
                \/ call.signs > 0)
                => client.invocationSigner /\ validated
           /\ call.signs > 0
                => \/ call.url = UNDEFINED
                   \/ ~Truthy(call.capability)
                   \/ UnderTarget(call.url, RequestTarget(call.capability))

\* C25 witness: the root capability of an http URL, given with a url out of
\* its scope, is refused as malformed and not for its scope
C25_Witness ==
    /\ call.op = "request" /\ call.pc = "failed"
    /\ call.capability =
          CapString(ZCAP_ROOT_PREFIX \o encodeURIComponent("http://z/i"))
    /\ call.url = TargetItem1
    /\ call.error.kind = "MalformedCapability"

\* the capabilityChain of a delegated capability starts with a root
\* capability identifier and ends with the capability's parentCapability
ChainFromRootToParent(o) ==
    LET chain == o.proof.capabilityChain
    IN  /\ Len(chain) >= 1
        /\ Len(chain[1]) > Len(ZCAP_ROOT_PREFIX)
        /\ SubSeq(chain[1], 1, Len(ZCAP_ROOT_PREFIX)) = ZCAP_ROOT_PREFIX
        /\ chain[Len(chain)] = o.parentCapability

C27_InheritsActions ==
    (Produced /\ call.allowedActions.type = "undefined"
        /\ call.capability.type = "object"
        /\ call.capability.obj.allowedAction.type # "undefined")
    => Document.allowedAction = call.capability.obj.allowedAction

\* the actions an allowedAction lists
ActionsOf(x) == {x.items[i] : i \in 1..Len(x.items)}

\* C29 (as claimed): a delegate call whose parent is a capability object
\* with a non-empty allowedAction produces a document only with actions the
\* parent lists.
C29_NeverBroadens ==
    (Produced /\ call.capability.type = "object"
        /\ ActionsOf(call.capability.obj.allowedAction) # {})
    => ActionsOf(Document.allowedAction)
            \subseteq ActionsOf(call.capability.obj.allowedAction)

\* C28 (as claimed): a request given the capability a delegate call
\* returned, unchanged, with no url or with the capability's https
\* invocationTarget as url, is not refused (on a client with an invocation
\* signer): it signs for that target with that capability.
C28_DelegateThenRequest ==
    (call.op = "request" /\ client.invocationSigner
        /\ held # NoObj /\ call.capability = CapObject(held)
        /\ Len(held.invocationTarget) >= 8
        /\ SubSeq(held.invocationTarget, 1, 8) = "https://"
        /\ call.url \in {UNDEFINED, held.invocationTarget})
    => /\ call.error.kind \notin ArgumentFailures
       /\ call.signs = 1
       /\ call.signed.url = held.invocationTarget
       /\ call.signed.capability = CapObject(held)

\* url starts with target and goes on with a character that is not "/"
BarePrefix(url, target) ==
    /\ Len(url) > Len(target)
    /\ SubSeq(url, 1, Len(target)) = target
    /\ SubSeq(url, Len(target) + 1, Len(target) + 1) # "/"

\* C30: the test request applies to a url and an invocationTarget accepts
\* every target as its own url; if it accepts u for the target t and v for
\* the target u, it accepts v for the target t; and it accepts no url that
\* starts with the target and goes on without a "/".
C30_ScopeRelation ==
    scope.done
    => /\ scope.tt
       /\ (scope.tu /\ scope.uv) => scope.tv
       /\ BarePrefix(scope.u, scope.t) => ~scope.tu
       /\ BarePrefix(scope.v, scope.u) => ~scope.uv
       /\ BarePrefix(scope.v, scope.t) => ~scope.tv

\* C30 witness: https://z/a is accepted for the target https://z, and
\* https://z/a/ for the target https://z/a and for the target https://z
C30_Witness ==
    /\ scope.done
    /\ scope.t = "https://z" /\ scope.u = "https://z/a"
    /\ scope.v = "https://z/a/"
    /\ scope.tu /\ scope.uv /\ scope.tv

====
